---- MODULE Spec2Model ----
(***************************************************************************)
(* Model of src/frame-processor/src/lib.rs: the FrameProcessor, its        *)
(* thread-local FRAME_BUFFER_POOL, motion estimation and brightness        *)
(* localisation.                                                           *)
(*                                                                         *)
(* Conventions.                                                            *)
(*  - A Vec<u8> is a record [len, cap, data]; data is a function from the  *)
(*    byte indices that hold a non-zero byte to that byte, every other     *)
(*    index below len holds 0.  A &[u8] is a record [len, data].           *)
(*  - Option<T> is a sequence of length 0 (None) or 1 (Some).              *)
(*  - f64 values are exact rationals [num, den] in lowest terms: the       *)
(*    rounding of the individual f64 operations is not modelled.  The      *)
(*    comparisons diff > 0.1 and brightness > 0.15 come out in f64 as in   *)
(*    exact arithmetic for every 8-bit channel value.                      *)
(*  - A panic (index out of range) ends the program: aborted becomes TRUE  *)
(*    and no further call is made.                                         *)
(*  - u32 and usize values are integers; the geometries used keep          *)
(*    width * height * 4 far below 2^32, so no product wraps.              *)
(*                                                                         *)
(* Specifications.  Spec: two processors sharing the pool, any calls.      *)
(* SpecSingle: one processor, any geometry, no cleanup.  SpecMotion and    *)
(* SpecBrightness: detect_motion and analyze_brightness as functions of    *)
(* their arguments.                                                        *)
(***************************************************************************)
EXTENDS Integers, Sequences, FiniteSets, TLC

VARIABLES
    FRAME_BUFFER_POOL,  \* the thread-local pool: a sequence of Vec<u8>, top last
    procs,              \* the FrameProcessor instances, by slot
    lastCall,           \* what the most recent call did and returned
    aborted,            \* TRUE once a call has panicked
    motion,             \* input and result of a stand-alone detect_motion run
    brightness          \* input and result of stand-alone analyze_brightness runs

vars == <<FRAME_BUFFER_POOL, procs, lastCall, aborted, motion, brightness>>

-----------------------------------------------------------------------------
(* Program constants *)

MAX_POOLED_BUFFERS == 3
MIN_BUFFER_SIZE == 1024 * 1024

-----------------------------------------------------------------------------
(* Exact rationals standing for f64 *)

RECURSIVE GCD(_, _)
GCD(a, b) == IF b = 0 THEN a ELSE GCD(b, a % b)

Rat(n, d) == LET g == GCD(n, d) IN [num |-> n \div g, den |-> d \div g]
RatZero == Rat(0, 1)
RatGt(a, b) == a.num * b.den > b.num * a.den
RatLe(a, b) == a.num * b.den <= b.num * a.den
RatAdd(a, b) == Rat(a.num * b.den + b.num * a.den, a.den * b.den)
\* the sum is not halved
RatHalf_identity(a) == a
RatHalf(a) == Rat(a.num, 2 * a.den)
RatTrunc(a) == a.num \div a.den

threshold == Rat(15, 100)
motion_threshold == Rat(1, 10)

Abs(x) == IF x < 0 THEN -x ELSE x
Min(a, b) == IF a < b THEN a ELSE b
SatSub(a, b) == IF a < b THEN 0 ELSE a - b

RECURSIVE SumOver(_, _)
SumOver(f, S) ==
    IF S = {} THEN 0
    ELSE LET e == CHOOSE x \in S : TRUE IN f[e] + SumOver(f, S \ {e})

-----------------------------------------------------------------------------
(* Byte vectors and slices *)

EmptyData == [i \in {} |-> 0]

\* vec![0; n]
ZeroVec(n) == [len |-> n, cap |-> n, data |-> EmptyData]

\* v[i] for an index within bounds
Byte(v, i) == IF i \in DOMAIN v.data THEN v.data[i] ELSE 0

\* nothing is copied into the buffer
CopyPrefix_skip(buffer, frame_data) == buffer

\* buffer[..frame_data.len()].copy_from_slice(frame_data), for
\* frame_data.len() <= buffer.len(): the prefix is overwritten, the bytes from
\* frame_data.len() on keep what the buffer held
CopyPrefix(buffer, frame_data) ==
    LET keep == {j \in DOMAIN buffer.data : j >= frame_data.len}
        dom == DOMAIN frame_data.data \cup keep
    IN [buffer EXCEPT !.data =
            [i \in dom |-> IF i < frame_data.len THEN frame_data.data[i]
                           ELSE buffer.data[i]]]

-----------------------------------------------------------------------------
(* The buffer pool *)

\* MAX_POOLED_BUFFERS buffers are pushed whatever the pool holds
prewarm_always(pool, frame_size) ==
    pool \o [i \in 1 .. MAX_POOLED_BUFFERS |-> ZeroVec(frame_size)]

\* the pre-allocation loop of new(): push zero-filled buffers until the pool
\* holds MAX_POOLED_BUFFERS
RECURSIVE prewarm(_, _)
prewarm(pool, frame_size) ==
    IF Len(pool) < MAX_POOLED_BUFFERS
    THEN prewarm(Append(pool, ZeroVec(frame_size)), frame_size)
    ELSE pool

\* pool.pop().unwrap_or_else(|| vec![0; self.frame_size])
get_buffer_from_pool(pool, frame_size) ==
    IF Len(pool) > 0
    THEN [buffer |-> pool[Len(pool)], pool |-> SubSeq(pool, 1, Len(pool) - 1)]
    ELSE [buffer |-> ZeroVec(frame_size), pool |-> pool]

\* buffer.clear() sets the length to 0 and keeps the capacity
return_buffer_to_pool(pool, buffer) ==
    IF buffer.cap >= MIN_BUFFER_SIZE
    THEN IF Len(pool) < MAX_POOLED_BUFFERS
         THEN Append(pool, [buffer EXCEPT !.len = 0, !.data = EmptyData])
         ELSE pool
    ELSE pool

-----------------------------------------------------------------------------
(* detect_motion *)

\* the number of 64-pixel chunks the outer loop runs over
NumChunks(width, height) == (width * height) \div 64

\* the previous frame is not subtracted
PixelDiff_current_only(current, previous, idx) ==
    Byte(current, idx) + Byte(current, idx + 1) + Byte(current, idx + 2)

\* diff_r + diff_g + diff_b of the pixel at byte index idx; the code's diff is
\* this sum divided by 3.0 * 255.0
PixelDiff(current, previous, idx) ==
      Abs(Byte(current, idx) - Byte(previous, idx))
    + Abs(Byte(current, idx + 1) - Byte(previous, idx + 1))
    + Abs(Byte(current, idx + 2) - Byte(previous, idx + 2))

\* the pixels at which a buffer holds a non-zero byte
Touched(v) == {i \div 4 : i \in DOMAIN v.data}

\* every pixel that changed at all takes the branch
ActivePixels_any_change(width, height, current, previous) ==
    {p \in Touched(current) \cup Touched(previous) :
        /\ p < NumChunks(width, height) * 64
        /\ PixelDiff(current, previous, 4 * p) > 0}

\* The pixels for which the loop body takes the branch diff > motion_threshold:
\* the pixels of chunks 0 .. NumChunks-1 whose diff exceeds the threshold.  A
\* pixel at which both buffers hold only zero bytes has diff 0 and never takes
\* the branch, so only the touched pixels are enumerated.
ActivePixels(width, height, current, previous) ==
    {p \in Touched(current) \cup Touched(previous) :
        /\ p < NumChunks(width, height) * 64
        /\ RatGt(Rat(PixelDiff(current, previous, 4 * p), 3 * 255), motion_threshold)}

\* current[idx] or previous[idx] is out of range for some idx the loops visit:
\* the largest index read is NumChunks * 64 * 4 - 2
detect_motion_panics(width, height, current, previous) ==
    /\ NumChunks(width, height) > 0
    /\ \/ current.len <= NumChunks(width, height) * 64 * 4 - 2
       \/ previous.len <= NumChunks(width, height) * 64 * 4 - 2

\* (motion_detected, motion_center, motion_magnitude), together with the
\* accumulators pixel_count and diff_sum the result is computed from
detect_motion(width, height, current, previous) ==
    LET act == ActivePixels(width, height, current, previous)
        d == [p \in act |-> PixelDiff(current, previous, 4 * p)]
        pixel_count == Cardinality(act)
        dsum == SumOver(d, act)
        mx == SumOver([p \in act |-> (p % width) * d[p]], act)
        my == SumOver([p \in act |-> (p \div width) * d[p]], act)
    IN IF pixel_count > 0
       THEN LET magnitude == Rat(dsum, 3 * 255 * pixel_count)
            IN [motion_detected |-> RatGt(magnitude, motion_threshold),
                center |-> <<Rat(mx, dsum * width), Rat(my, dsum * height)>>,
                magnitude |-> magnitude,
                pixel_count |-> pixel_count,
                diff_sum |-> Rat(dsum, 3 * 255)]
       ELSE [motion_detected |-> FALSE,
             center |-> <<RatZero, RatZero>>,
             magnitude |-> RatZero,
             pixel_count |-> 0,
             diff_sum |-> RatZero]

-----------------------------------------------------------------------------
(* analyze_brightness *)

window_size == 32

\* (center.0 * self.width as f64) as u32
CenterPixel(c, extent) == RatTrunc(Rat(c.num * extent, c.den))

\* the bounds start_x, end_x, start_y, end_y of the two nested loops
Window(width, height, center) ==
    LET center_x == CenterPixel(center[1], width)
        center_y == CenterPixel(center[2], height)
    IN [start_x |-> SatSub(center_x, window_size \div 2),
        start_y |-> SatSub(center_y, window_size \div 2),
        end_x |-> Min(center_x + window_size \div 2, width),
        end_y |-> Min(center_y + window_size \div 2, height)]

\* pixel p = y * width + x is visited by "for y in start_y..end_y" and
\* "for x in start_x..end_x"
InWindow(win, width, p) ==
    /\ win.start_x <= p % width /\ p % width < win.end_x
    /\ win.start_y <= p \div width /\ p \div width < win.end_y

\* frame[idx]*0.299 + frame[idx+1]*0.587 + frame[idx+2]*0.114, times 1000
Luma(frame, idx) ==
    299 * Byte(frame, idx) + 587 * Byte(frame, idx + 1) + 114 * Byte(frame, idx + 2)

\* frame[idx + 2] is out of range for some pixel the loops visit: the largest
\* idx is that of the last pixel (end_x - 1, end_y - 1) of a non-empty window
analyze_brightness_panics(width, height, frame, center) ==
    LET win == Window(width, height, center)
    IN /\ win.start_x < win.end_x
       /\ win.start_y < win.end_y
       /\ ((win.end_y - 1) * width + (win.end_x - 1)) * 4 + 2 >= frame.len

\* bright_spot is multiplied by width and height where the code divides
analyze_brightness_times_extent(width, height, frame, center) ==
    LET win == Window(width, height, center)
        lit == {p \in Touched(frame) : InWindow(win, width, p) /\ Luma(frame, 4 * p) > 0}
    IN IF lit = {}
       THEN [bright_spot |-> <<RatZero, RatZero>>, max_brightness |-> RatZero]
       ELSE LET best == CHOOSE p \in lit :
                            \A q \in lit :
                                \/ Luma(frame, 4 * q) < Luma(frame, 4 * p)
                                \/ Luma(frame, 4 * q) = Luma(frame, 4 * p) /\ p <= q
            IN [bright_spot |-> <<Rat((best % width) * width, 1),
                                  Rat((best \div width) * height, 1)>>,
                max_brightness |-> Rat(Luma(frame, 4 * best), 255 * 1000)]

\* the update is on brightness > 0.0: the last lit pixel of the scan wins
analyze_brightness_last_lit(width, height, frame, center) ==
    LET win == Window(width, height, center)
        lit == {p \in Touched(frame) : InWindow(win, width, p) /\ Luma(frame, 4 * p) > 0}
    IN IF lit = {}
       THEN [bright_spot |-> <<RatZero, RatZero>>, max_brightness |-> RatZero]
       ELSE LET best == CHOOSE p \in lit : \A q \in lit : q <= p
            IN [bright_spot |-> <<Rat(best % width, width), Rat(best \div width, height)>>,
                max_brightness |-> Rat(Luma(frame, 4 * best), 255 * 1000)]

\* the update is on brightness >= max_brightness: of the pixels that attain
\* the maximum the last of the scan wins
analyze_brightness_last_of_ties(width, height, frame, center) ==
    LET win == Window(width, height, center)
        lit == {p \in Touched(frame) : InWindow(win, width, p) /\ Luma(frame, 4 * p) > 0}
    IN IF lit = {}
       THEN [bright_spot |-> <<RatZero, RatZero>>, max_brightness |-> RatZero]
       ELSE LET best == CHOOSE p \in lit :
                            \A q \in lit :
                                \/ Luma(frame, 4 * q) < Luma(frame, 4 * p)
                                \/ Luma(frame, 4 * q) = Luma(frame, 4 * p) /\ q <= p
            IN [bright_spot |-> <<Rat(best % width, width), Rat(best \div width, height)>>,
                max_brightness |-> Rat(Luma(frame, 4 * best), 255 * 1000)]

\* (bright_spot, max_brightness): the maximum of the window, at the first pixel
\* in scan order (rows top to bottom, left to right within a row) that attains
\* it; the update is on brightness > max_brightness, starting from 0.0 at
\* (0.0, 0.0).  A pixel whose bytes are all zero has brightness 0 and never
\* updates, so only the touched pixels of the window are enumerated.
analyze_brightness(width, height, frame, center) ==
    LET win == Window(width, height, center)
        lit == {p \in Touched(frame) : InWindow(win, width, p) /\ Luma(frame, 4 * p) > 0}
    IN IF lit = {}
       THEN [bright_spot |-> <<RatZero, RatZero>>, max_brightness |-> RatZero]
       ELSE LET best == CHOOSE p \in lit :
                            \A q \in lit :
                                \/ Luma(frame, 4 * q) < Luma(frame, 4 * p)
                                \/ Luma(frame, 4 * q) = Luma(frame, 4 * p) /\ p <= q
            IN [bright_spot |-> <<Rat(best % width, width), Rat(best \div width, height)>>,
                max_brightness |-> Rat(Luma(frame, 4 * best), 255 * 1000)]

-----------------------------------------------------------------------------
(* FrameProcessor *)

None == <<>>
Some(x) == <<x>>

\* the struct built by new(width, height); last_input and all_exact are
\* history kept for stating properties: the frame_data of this instance's
\* latest process_frame call, and whether every frame_data so far had
\* frame_size bytes
Processor(width, height) ==
    [live |-> TRUE,
     width |-> width,
     height |-> height,
     frame_size |-> width * height * 4,
     previous_frame |-> None,
     last_input |-> None,
     all_exact |-> TRUE]

\* a slot in which no processor has been constructed
NoProcessor ==
    [live |-> FALSE, width |-> 0, height |-> 0, frame_size |-> 0,
     previous_frame |-> None, last_input |-> None, all_exact |-> TRUE]

\* the value process_frame returns when shot_detected
ShotResult(position, confidence) ==
    [detected |-> TRUE,
     position |-> [x |-> position[1], y |-> position[2]],
     confidence |-> confidence]

\* the brightness is compared with motion_threshold where the code compares it
\* with threshold
motion_and_brightness_one_threshold(self, current_frame, prev_frame) ==
    IF detect_motion_panics(self.width, self.height, current_frame, prev_frame)
    THEN [panicked |-> TRUE, shot |-> None, pixel_count |-> -1]
    ELSE LET m == detect_motion(self.width, self.height, current_frame, prev_frame) IN
         IF ~m.motion_detected
         THEN [panicked |-> FALSE, shot |-> None, pixel_count |-> m.pixel_count]
         ELSE IF analyze_brightness_panics(self.width, self.height, current_frame, m.center)
         THEN [panicked |-> TRUE, shot |-> None, pixel_count |-> m.pixel_count]
         ELSE LET b == analyze_brightness(self.width, self.height, current_frame, m.center) IN
              IF RatGt(b.max_brightness, motion_threshold)
              THEN [panicked |-> FALSE,
                    shot |-> Some(ShotResult(b.bright_spot,
                                RatHalf(RatAdd(b.max_brightness, m.magnitude)))),
                    pixel_count |-> m.pixel_count]
              ELSE [panicked |-> FALSE, shot |-> None, pixel_count |-> m.pixel_count]

\* The body of "if let Some(ref prev_frame) = self.previous_frame { ... }":
\* whether it panicked, the Option of the shot found, and the pixel_count of
\* detect_motion (-1 when detect_motion panicked)
motion_and_brightness(self, current_frame, prev_frame) ==
    IF detect_motion_panics(self.width, self.height, current_frame, prev_frame)
    THEN [panicked |-> TRUE, shot |-> None, pixel_count |-> -1]
    ELSE LET m == detect_motion(self.width, self.height, current_frame, prev_frame) IN
         IF ~m.motion_detected
         THEN [panicked |-> FALSE, shot |-> None, pixel_count |-> m.pixel_count]
         ELSE IF analyze_brightness_panics(self.width, self.height, current_frame, m.center)
         THEN [panicked |-> TRUE, shot |-> None, pixel_count |-> m.pixel_count]
         ELSE LET b == analyze_brightness(self.width, self.height, current_frame, m.center) IN
              IF RatGt(b.max_brightness, threshold)
              THEN [panicked |-> FALSE,
                    shot |-> Some(ShotResult(b.bright_spot,
                                RatHalf(RatAdd(b.max_brightness, m.magnitude)))),
                    pixel_count |-> m.pixel_count]
              ELSE [panicked |-> FALSE, shot |-> None, pixel_count |-> m.pixel_count]

\* a previous frame of zeros stands in for a missing one
motion_stage_zero_previous(self, current_frame) ==
    motion_and_brightness(self, current_frame,
        IF self.previous_frame = None THEN ZeroVec(self.frame_size)
        ELSE self.previous_frame[1])

\* The motion detection block of process_frame: skipped (pixel_count -1) when
\* there is no previous frame
motion_stage(self, current_frame) ==
    IF self.previous_frame = None
    THEN [panicked |-> FALSE, shot |-> None, pixel_count |-> -1]
    ELSE motion_and_brightness(self, current_frame, self.previous_frame[1])

\* process_frame(&mut self, frame_data): the pool and previous_frame it leaves,
\* the Option it returns, and whether it panicked.  A panic leaves the popped
\* buffer out of the pool and previous_frame as it was.
process_frame(self, pool, frame_data) ==
    LET got == get_buffer_from_pool(pool, self.frame_size)
        failed == [panicked |-> TRUE, pool |-> got.pool,
                   previous_frame |-> self.previous_frame, ret |-> None,
                   acquired_len |-> got.buffer.len,
                   acquired_cap |-> got.buffer.cap, pixel_count |-> -1,
                   released |-> None]
    IN IF frame_data.len > got.buffer.len
       THEN failed
       ELSE LET current_frame == CopyPrefix(got.buffer, frame_data)
                st == motion_stage(self, current_frame)
            IN IF st.panicked
               THEN [failed EXCEPT !.pixel_count = st.pixel_count]
               ELSE [panicked |-> FALSE,
                     pool |-> IF self.previous_frame # None
                              THEN return_buffer_to_pool(got.pool, self.previous_frame[1])
                              ELSE got.pool,
                     previous_frame |-> Some(current_frame),
                     ret |-> st.shot,
                     acquired_len |-> got.buffer.len,
                     acquired_cap |-> got.buffer.cap,
                     pixel_count |-> st.pixel_count,
                     released |-> self.previous_frame]

\* the pool is cleared before the previous frame is returned to it
cleanup_clear_first(self, pool) ==
    [pool |-> IF self.previous_frame # None
              THEN return_buffer_to_pool(<<>>, self.previous_frame[1])
              ELSE <<>>,
     previous_frame |-> None]

\* cleanup(&mut self): the pool and previous_frame it leaves; clear() drops
\* every element of the pool the return left
cleanup(self, pool) ==
    LET returned == IF self.previous_frame # None
                    THEN return_buffer_to_pool(pool, self.previous_frame[1])
                    ELSE pool
    IN [pool |-> SubSeq(returned, 1, 0), previous_frame |-> None]

-----------------------------------------------------------------------------
(* Inputs *)

\* the slots for processor instances, all on the thread that owns the pool
Procs == {1, 2}

\* the pixels 1 .. MaxProbe are the ones a frame may light
MaxProbe == 1

\* (width, height) of the processors constructed: fewer pixels than one chunk,
\* exactly one chunk, and a frame of exactly MIN_BUFFER_SIZE bytes
Geometries == {<<2, 2>>, <<8, 8>>, <<512, 512>>}

\* a (width, height) that is not positive, which new() takes like any other
DegenerateGeometries == {<<0, 2>>}

White == <<255, 255, 255, 255>>
Blue == <<0, 0, 255, 255>>
Dim == <<20, 20, 20, 255>>

\* against a zero pixel the least diff above motion_threshold: 77/765
Faint == <<77, 0, 0, 255>>

NoLit == [p \in {} |-> White]

\* a frame_data of len bytes: RGBA lit[p] at each pixel p of DOMAIN lit (as far
\* as it lies below len), zero elsewhere
Frame(len, lit) ==
    LET idx == {i \in {4 * p + c : p \in DOMAIN lit, c \in 0 .. 3} :
                    i < len /\ lit[i \div 4][(i % 4) + 1] # 0}
    IN [len |-> len, data |-> [i \in idx |-> lit[i \div 4][(i % 4) + 1]]]

\* the frame_data values passed to process_frame of a processor: frames of
\* frame_size bytes (all zero, or one probe pixel white or blue), one that is
\* 4 bytes short (when frame_size allows) and one that is 4 bytes long
InputFrames(self) ==
    {Frame(self.frame_size, lit) :
        lit \in {NoLit} \cup {p :> v : p \in 1 .. MaxProbe, v \in {White, Blue}}}
    \cup {Frame(self.frame_size - 4, 1 :> White) : k \in {4} \cap 0 .. self.frame_size}
    \cup {Frame(self.frame_size + 4, NoLit)}

-----------------------------------------------------------------------------
(* Calls *)

NoCall ==
    [op |-> "none", proc |-> 0, input |-> None, prior_input |-> None,
     had_previous |-> FALSE, acquired_len |-> -1, acquired_cap |-> -1,
     pool_before |-> 0,
     released |-> None, outcome |-> "-", ret |-> None, pixel_count |-> -1]

MotionIdle == [stage |-> "idle"]

BrightnessIdle == [stage |-> "idle"]

Init ==
    /\ FRAME_BUFFER_POOL = <<>>
    /\ procs = [p \in Procs |-> NoProcessor]
    /\ lastCall = NoCall
    /\ aborted = FALSE
    /\ motion = MotionIdle
    /\ brightness = BrightnessIdle

\* FrameProcessor::new(width, height) into the first free slot
New(p, width, height) ==
    /\ ~aborted
    /\ ~procs[p].live
    /\ \A q \in Procs : q < p => procs[q].live
    /\ FRAME_BUFFER_POOL' = prewarm(FRAME_BUFFER_POOL, width * height * 4)
    /\ procs' = [procs EXCEPT ![p] = Processor(width, height)]
    /\ lastCall' = [NoCall EXCEPT !.op = "new", !.proc = p,
                                  !.pool_before = Len(FRAME_BUFFER_POOL)]
    /\ UNCHANGED <<aborted, motion, brightness>>

\* processor.process_frame(frame_data)
ProcessFrame(p, frame_data) ==
    /\ ~aborted
    /\ procs[p].live
    /\ \E self \in {procs[p]} :
       \E r \in {process_frame(self, FRAME_BUFFER_POOL, frame_data)} :
          /\ FRAME_BUFFER_POOL' = r.pool
          /\ procs' = [procs EXCEPT ![p] =
                 [self EXCEPT !.previous_frame = r.previous_frame,
                              !.last_input = Some(frame_data),
                              !.all_exact = @ /\ frame_data.len = self.frame_size]]
          /\ aborted' = r.panicked
          /\ lastCall' =
                 [op |-> "process_frame", proc |-> p,
                  input |-> Some(frame_data), prior_input |-> self.last_input,
                  had_previous |-> self.previous_frame # None,
                  acquired_len |-> r.acquired_len,
                  acquired_cap |-> r.acquired_cap,
                  pool_before |-> Len(FRAME_BUFFER_POOL),
                  released |-> r.released,
                  outcome |-> IF r.panicked THEN "panic"
                              ELSE IF r.ret = None THEN "none" ELSE "detection",
                  ret |-> r.ret,
                  pixel_count |-> r.pixel_count]
    /\ UNCHANGED <<motion, brightness>>

\* processor.cleanup()
Cleanup(p) ==
    /\ ~aborted
    /\ procs[p].live
    /\ \E r \in {cleanup(procs[p], FRAME_BUFFER_POOL)} :
          /\ FRAME_BUFFER_POOL' = r.pool
          /\ procs' = [procs EXCEPT ![p].previous_frame = r.previous_frame]
          /\ lastCall' = [NoCall EXCEPT !.op = "cleanup", !.proc = p,
                              !.had_previous = procs[p].previous_frame # None,
                              !.pool_before = Len(FRAME_BUFFER_POOL),
                              !.released = procs[p].previous_frame]
    /\ UNCHANGED <<aborted, motion, brightness>>

Next ==
    \/ \E p \in Procs, g \in Geometries : New(p, g[1], g[2])
    \/ \E p \in Procs : \E frame_data \in InputFrames(procs[p]) : ProcessFrame(p, frame_data)
    \/ \E p \in Procs : Cleanup(p)

Spec == Init /\ [][Next]_vars

\* one processor alone on its thread, constructed with any geometry, a
\* degenerate one included, and never torn down: the pool holds what new()
\* pre-warmed and what process_frame returned to it
NewSingle == \E g \in Geometries \cup DegenerateGeometries : New(1, g[1], g[2])

ProcessFrameSingle == \E frame_data \in InputFrames(procs[1]) : ProcessFrame(1, frame_data)

NextSingle == NewSingle \/ ProcessFrameSingle

SpecSingle == Init /\ [][NextSingle]_vars

-----------------------------------------------------------------------------
(* detect_motion on its own: every input of a bounded family, then one run *)

\* at most MaxLit pixels of the current frame are non-zero
MaxLit == 2

\* fewer pixels than one chunk, exactly one chunk, one chunk and a tail of 8
MotionGeometries == {<<2, 2>>, <<8, 8>>, <<9, 8>>}

\* the pixels a frame may light: the corners, both sides of the row boundary
\* and both sides of the chunk boundary
MotionPixels(width, height) ==
    {p \in {0, 1, width - 1, width, 63, 64, width * height - 1} : p < width * height}

\* the assignments of White, Dim or Faint to at most n of the pixels S
LitSets(S, n) ==
    UNION {[D -> {White, Dim, Faint}] : D \in {X \in SUBSET S : Cardinality(X) <= n}}

NoMotionResult ==
    [motion_detected |-> FALSE, center |-> <<RatZero, RatZero>>,
     magnitude |-> RatZero, pixel_count |-> -1, diff_sum |-> RatZero]

\* a buffer of a width x height processor filled with a frame of frame_size bytes
FilledBuffer(width, height, lit) ==
    CopyPrefix(ZeroVec(width * height * 4), Frame(width * height * 4, lit))

MotionInputs ==
    {[stage |-> "input", width |-> g[1], height |-> g[2],
      current |-> FilledBuffer(g[1], g[2], c), previous |-> FilledBuffer(g[1], g[2], q),
      result |-> NoMotionResult] :
        <<g, c, q>> \in UNION {{g1} \X LitSets(MotionPixels(g1[1], g1[2]), MaxLit)
                                    \X LitSets(MotionPixels(g1[1], g1[2]), 1) :
                               g1 \in MotionGeometries}}

InitMotion ==
    /\ FRAME_BUFFER_POOL = <<>>
    /\ procs = [p \in Procs |-> NoProcessor]
    /\ lastCall = NoCall
    /\ aborted = FALSE
    /\ motion \in MotionInputs
    /\ brightness = BrightnessIdle

\* self.detect_motion(&current_frame, prev_frame)
EstimateMotion ==
    /\ motion.stage = "input"
    /\ motion' = [motion EXCEPT
            !.stage = "done",
            !.result = detect_motion(motion.width, motion.height,
                                     motion.current, motion.previous)]
    /\ UNCHANGED <<FRAME_BUFFER_POOL, procs, lastCall, aborted, brightness>>

NextMotion == EstimateMotion

SpecMotion == InitMotion /\ [][NextMotion]_vars

-----------------------------------------------------------------------------
(* analyze_brightness on its own: every frame and center of a bounded family,
   a run, then one channel of one pixel raised and a second run *)

\* a row of 40 pixels in 2 rows, 2 columns of 40 pixels, and a zero width
BrightnessGeometries == {<<40, 2>>, <<2, 40>>, <<0, 2>>}

\* (x, y) on both sides of the bounds 4 and 36 of a window around pixel 20,
\* and two pixels that row-major and column-major order rank differently; the
\* same with x and y exchanged
BrightnessCoords ==
    LET across == {<<3, 0>>, <<4, 0>>, <<5, 0>>, <<35, 0>>, <<36, 0>>, <<4, 1>>}
    IN across \cup {<<c[2], c[1]>> : c \in across}

\* the pixels a frame may light
BrightnessPixels(width, height) ==
    {c[2] * width + c[1] : c \in {d \in BrightnessCoords : d[1] < width /\ d[2] < height}}

\* the motion centers: the origin, a point whose pixel coordinate (20.5 of 40)
\* is truncated, and the far corner
Centers ==
    {<<RatZero, RatZero>>, <<Rat(41, 80), Rat(41, 80)>>, <<Rat(1, 1), Rat(1, 1)>>}

NoBrightnessResult == [bright_spot |-> <<RatZero, RatZero>>, max_brightness |-> RatZero]

BrightnessInputs ==
    {[stage |-> "input", width |-> g[1], height |-> g[2],
      frame |-> FilledBuffer(g[1], g[2], lit), center |-> c,
      result |-> NoBrightnessResult, raised |-> None, before |-> None] :
        <<g, lit, c>> \in UNION {{g1} \X LitSets(BrightnessPixels(g1[1], g1[2]), MaxLit)
                                      \X Centers :
                                 g1 \in BrightnessGeometries}}

InitBrightness ==
    /\ FRAME_BUFFER_POOL = <<>>
    /\ procs = [p \in Procs |-> NoProcessor]
    /\ lastCall = NoCall
    /\ aborted = FALSE
    /\ motion = MotionIdle
    /\ brightness \in BrightnessInputs

\* self.analyze_brightness(&current_frame, motion_center)
AnalyzeBrightness ==
    /\ brightness.stage = "input"
    /\ brightness' = [brightness EXCEPT
            !.stage = "done",
            !.result = analyze_brightness(brightness.width, brightness.height,
                                          brightness.frame, brightness.center)]
    /\ UNCHANGED <<FRAME_BUFFER_POOL, procs, lastCall, aborted, motion>>

\* after the first run, channel c (0 R, 1 G, 2 B) of pixel p is raised to 255
\* for a second run on the frame so changed
RaisePixel(p, c) ==
    /\ brightness.stage = "done"
    /\ brightness.raised = None
    /\ Byte(brightness.frame, 4 * p + c) < 255
    /\ brightness' = [brightness EXCEPT
            !.stage = "input",
            !.frame = [@ EXCEPT !.data = (4 * p + c :> 255) @@ @],
            !.raised = Some(p),
            !.before = Some(brightness.result)]
    /\ UNCHANGED <<FRAME_BUFFER_POOL, procs, lastCall, aborted, motion>>

NextBrightness ==
    \/ AnalyzeBrightness
    \/ \E p \in BrightnessPixels(brightness.width, brightness.height), c \in 0 .. 2 :
           RaisePixel(p, c)

SpecBrightness == InitBrightness /\ [][NextBrightness]_vars

-----------------------------------------------------------------------------
(* Properties *)

\* the latest call was process_frame
Processed == lastCall.op = "process_frame"

\* the processor the latest call was made on
Callee == procs[lastCall.proc]

\* p is the only processor constructed so far
OnlyProcessor(p) == \A q \in Procs : q # p => ~procs[q].live

\* the frame_data of the latest process_frame call had exactly frame_size bytes
ExactInput == lastCall.input[1].len = Callee.frame_size

\* C1: with a single processor and every frame_data so far of exactly
\* frame_size bytes, each process_frame call runs to completion and returns a
\* detection or none: no call panics.
C1_NoCallFails ==
    (/\ Processed /\ OnlyProcessor(lastCall.proc) /\ Callee.all_exact
     /\ Callee.width > 0 /\ Callee.height > 0)
        => lastCall.outcome \in {"none", "detection"}

\* C2: a process_frame call whose frame_data is shorter or longer than
\* frame_size fails with InvalidFrameSize.
C2_WrongLengthRejected ==
    (Processed /\ ~ExactInput) => lastCall.outcome = "InvalidFrameSize"

\* C3: the pool never holds more than MAX_POOLED_BUFFERS (3) buffers, whatever
\* constructor, process_frame and cleanup calls were made on the processors
\* sharing it.
C3_PoolBounded == Len(FRAME_BUFFER_POOL) <= MAX_POOLED_BUFFERS

\* the pool is full, two processors share it, and it holds a buffer that was
\* released by process_frame (cleared, length 0) next to pre-warmed ones
C3_Witness ==
    /\ Len(FRAME_BUFFER_POOL) = MAX_POOLED_BUFFERS
    /\ \A p \in Procs : procs[p].live
    /\ \E i \in 1 .. Len(FRAME_BUFFER_POOL) : FRAME_BUFFER_POOL[i].len = 0
    /\ lastCall.op = "new" /\ lastCall.pool_before = 2

\* C4: with a single processor fed frames of frame_size bytes, the buffer
\* acquired for the current frame and the buffer held as the previous frame
\* always have length frame_size.
C4_FrameLengths ==
    \A p \in Procs :
        (procs[p].live /\ OnlyProcessor(p) /\ procs[p].all_exact) =>
            /\ procs[p].previous_frame # None
                   => procs[p].previous_frame[1].len = procs[p].frame_size
            /\ (Processed /\ lastCall.proc = p)
                   => lastCall.acquired_len = procs[p].frame_size

\* C5: right after cleanup returns, the pool is empty and the processor holds
\* no previous frame.
C5_CleanupEmpties ==
    lastCall.op = "cleanup" =>
        /\ FRAME_BUFFER_POOL = <<>>
        /\ Callee.previous_frame = None

\* cleanup ran on a processor holding a previous frame large enough to be
\* retained, with room for it in a non-empty pool
C5_Witness ==
    /\ lastCall.op = "cleanup"
    /\ lastCall.released # None
    /\ lastCall.released[1].cap >= MIN_BUFFER_SIZE
    /\ lastCall.pool_before \in 1 .. MAX_POOLED_BUFFERS - 1

\* C6: a process_frame call made while the processor holds no previous frame
\* (the first after construction, the first after cleanup) never returns a
\* detection, and returns none whenever the frame_data fits the acquired buffer.
C6_NoPreviousNoDetection ==
    (Processed /\ ~lastCall.had_previous) =>
        /\ lastCall.outcome # "detection"
        /\ lastCall.input[1].len <= lastCall.acquired_len => lastCall.outcome = "none"

\* the first call after cleanup on an 8x8 processor: the frame has a white pixel
\* and differs from the frame of the call before cleanup, and none is returned
C6_Witness ==
    /\ Processed /\ ~lastCall.had_previous
    /\ Callee.width = 8 /\ Callee.height = 8
    /\ lastCall.input = Some(Frame(Callee.frame_size, 1 :> White))
    /\ lastCall.prior_input = Some(Frame(Callee.frame_size, NoLit))
    /\ lastCall.outcome = "none"

\* C7: when a process_frame call gets a frame_data of frame_size bytes that is
\* byte-identical to the frame_data of the preceding process_frame call on the
\* same processor, it returns no detection and detect_motion, when it runs,
\* finds no active pixel (pixel_count 0), however bright the frame is.
C7_IdenticalFramesNoMotion ==
    (Processed /\ ExactInput /\ lastCall.prior_input = lastCall.input) =>
        /\ lastCall.outcome # "detection"
        /\ lastCall.pixel_count <= 0
        /\ (lastCall.had_previous /\ lastCall.outcome = "none") => lastCall.pixel_count = 0

\* the same frame with a white pixel twice in a row on an 8x8 processor:
\* detect_motion ran over the one chunk and none was returned
C7_Witness ==
    /\ Processed /\ lastCall.had_previous
    /\ Callee.width = 8 /\ Callee.height = 8
    /\ lastCall.input = Some(Frame(Callee.frame_size, 1 :> White))
    /\ lastCall.prior_input = lastCall.input
    /\ lastCall.pixel_count = 0
    /\ lastCall.outcome = "none"

\* C8: on a 2x2 processor, process_frame(A) with A all zero followed by
\* process_frame(B) with B zero but for pixel (1,0) = (255,255,255,255) returns
\* a detection with position (0.5, 0.0) and confidence 1.0.
C8_EndToEnd ==
    (/\ Processed /\ lastCall.had_previous
     /\ Callee.width = 2 /\ Callee.height = 2
     /\ lastCall.prior_input = Some(Frame(16, NoLit))
     /\ lastCall.input = Some(Frame(16, 1 :> White)))
        => lastCall.ret = Some(ShotResult(<<Rat(1, 2), RatZero>>, Rat(1, 1)))

\* every pixel of the frame whose diff exceeds motion_threshold
AllActivePixels(width, height, current, previous) ==
    {p \in 0 .. width * height - 1 :
        RatGt(Rat(PixelDiff(current, previous, 4 * p), 3 * 255), motion_threshold)}

\* C9: detect_motion counts every pixel of the width*height frame whose diff
\* exceeds motion_threshold: pixel_count is the number of such pixels and
\* diff_sum the sum of their diffs, whatever width*height is.
C9_EveryPixelScanned ==
    motion.stage = "done" =>
        LET all == AllActivePixels(motion.width, motion.height,
                                   motion.current, motion.previous)
        IN /\ motion.result.pixel_count = Cardinality(all)
           /\ motion.result.diff_sum =
                  Rat(SumOver([p \in all |-> PixelDiff(motion.current, motion.previous, 4 * p)],
                              all), 3 * 255)

\* C10: when exactly one pixel (x, y) of the frame has a diff above
\* motion_threshold, detect_motion reports the centroid (x/width, y/height).
C10_SinglePixelCentroid ==
    motion.stage = "done" =>
        LET all == AllActivePixels(motion.width, motion.height,
                                   motion.current, motion.previous)
        IN Cardinality(all) = 1 =>
               \A p \in all :
                   motion.result.center =
                       <<Rat(p % motion.width, motion.width),
                         Rat(p \div motion.width, motion.height)>>

\* C11: new(width, height) with a width or height of zero is rejected at
\* construction: no processor instance results from it.
C11_NoDegenerateProcessor ==
    \A p \in Procs : procs[p].live => procs[p].width > 0 /\ procs[p].height > 0

\* C12: with a single processor of positive geometry that was never torn down
\* and only got frames of frame_size bytes, the pool is never empty when
\* process_frame acquires its buffer, whatever frame_size is.
C12_AcquirePops ==
    (/\ Processed /\ OnlyProcessor(lastCall.proc) /\ Callee.all_exact
     /\ Callee.width > 0 /\ Callee.height > 0)
        => lastCall.pool_before > 0

\* C13: while two processors of different frame_size share the pool, the
\* buffer process_frame acquires was allocated for the calling processor's own
\* frame_size (its capacity is frame_size), never for the other's.
C13_NoForeignBuffer ==
    (/\ Processed
     /\ \A p \in Procs : procs[p].live
     /\ procs[1].frame_size # procs[2].frame_size)
        => lastCall.acquired_cap = Callee.frame_size

\* a is a number of the interval [0, 1]
InUnit(a) == RatLe(RatZero, a) /\ RatLe(a, Rat(1, 1))

\* C15: every detection process_frame returns has detected = true and a
\* position (x, y) with 0 <= x <= 1 and 0 <= y <= 1.
C15_DetectionInUnitSquare ==
    (Processed /\ lastCall.ret # None) =>
        /\ lastCall.ret[1].detected
        /\ InUnit(lastCall.ret[1].position.x)
        /\ InUnit(lastCall.ret[1].position.y)

\* a detection on an 8x8 processor at pixel (1, 0): x = 1/8 lies strictly
\* between the bounds
C15_Witness ==
    /\ Processed /\ lastCall.outcome = "detection"
    /\ Callee.width = 8
    /\ lastCall.ret[1].position = [x |-> Rat(1, 8), y |-> RatZero]

C17_DetectionIff ==
    (Processed /\ lastCall.outcome # "panic") =>
        IF ~lastCall.had_previous
        THEN lastCall.ret = None
        ELSE LET current == Callee.previous_frame[1]
                 m == detect_motion(Callee.width, Callee.height,
                                    current, lastCall.released[1])
                 b == analyze_brightness(Callee.width, Callee.height, current, m.center)
             IN IF m.motion_detected /\ RatGt(b.max_brightness, threshold)
                THEN lastCall.ret =
                         Some([detected |-> TRUE,
                               position |-> [x |-> b.bright_spot[1], y |-> b.bright_spot[2]],
                               confidence |->
                                   Rat(b.max_brightness.num * m.magnitude.den
                                           + m.magnitude.num * b.max_brightness.den,
                                       2 * b.max_brightness.den * m.magnitude.den)])
                ELSE lastCall.ret = None

\* a white pixel where the preceding frame had a blue one: magnitude 2/3,
\* max_brightness 1, and a detection of confidence 5/6
C17_Witness ==
    /\ Processed /\ lastCall.had_previous
    /\ lastCall.prior_input = Some(Frame(Callee.frame_size, 1 :> Blue))
    /\ lastCall.input = Some(Frame(Callee.frame_size, 1 :> White))
    /\ lastCall.outcome = "detection"
    /\ lastCall.ret[1].confidence = Rat(5, 6)

\* C20: the confidence of every detection process_frame returns is greater
\* than (threshold + motion_threshold) / 2 and at most 1.
C20_ConfidenceBounds ==
    (Processed /\ lastCall.ret # None) =>
        /\ RatGt(RatAdd(lastCall.ret[1].confidence, lastCall.ret[1].confidence),
                 RatAdd(threshold, motion_threshold))
        /\ RatLe(lastCall.ret[1].confidence, Rat(1, 1))

\* a white pixel where the preceding frame was all zero: magnitude 1 and
\* max_brightness 1, so the confidence is 1, the upper bound
C20_Witness ==
    /\ Processed /\ lastCall.outcome = "detection"
    /\ lastCall.prior_input = Some(Frame(Callee.frame_size, NoLit))
    /\ lastCall.ret[1].confidence = Rat(1, 1)

\* C19: whenever detect_motion counts an active pixel (pixel_count > 0) the
\* magnitude it reports is greater than motion_threshold, so motion_detected
\* is true exactly when pixel_count > 0.
C19_AggregateGateRedundant ==
    motion.stage = "done" =>
        /\ motion.result.pixel_count > 0
               => RatGt(motion.result.magnitude, motion_threshold)
        /\ motion.result.motion_detected <=> motion.result.pixel_count > 0

\* two active pixels, one of them a faint one against a zero pixel, and a
\* magnitude below 1/2
C19_Witness ==
    /\ motion.stage = "done"
    /\ motion.result.pixel_count = 2
    /\ motion.result.motion_detected
    /\ \E p \in DOMAIN motion.current.data :
           /\ motion.current.data[p] = Faint[1]
           /\ p \div 4 \notin Touched(motion.previous)
    /\ RatGt(Rat(1, 2), motion.result.magnitude)

\* the pixels the two loops of analyze_brightness visit, from the window bounds
ScannedPixels(width, height, center) ==
    LET win == Window(width, height, center)
    IN {y * width + x : x \in win.start_x .. win.end_x - 1,
                        y \in win.start_y .. win.end_y - 1}

\* the raised pixel lies inside the clipped window
RaisedInWindow ==
    /\ brightness.stage = "done"
    /\ brightness.raised # None
    /\ brightness.raised[1] \in
           ScannedPixels(brightness.width, brightness.height, brightness.center)

\* the weighted sum 299 R + 587 G + 114 B a max_brightness stands for: the
\* brightness times 255 * 1000, an integer
WeightedSum(a) == a.num * ((255 * 1000) \div a.den)

\* C14: with frame and center fixed, raising the R, G or B value of one pixel
\* inside the clipped window never lowers the max_brightness analyze_brightness
\* reports.
C14_RaisingNeverLowersPeak ==
    RaisedInWindow =>
        WeightedSum(brightness.before[1].max_brightness)
            <= WeightedSum(brightness.result.max_brightness)

\* a channel of a pixel inside the window was raised in a frame that already
\* had a lit pixel in the window: the peak stayed where it was, or it rose and
\* moved to the raised pixel
C14_Witness ==
    /\ RaisedInWindow
    /\ WeightedSum(brightness.before[1].max_brightness) > 0
    /\ WeightedSum(brightness.result.max_brightness)
           > WeightedSum(brightness.before[1].max_brightness)
    /\ brightness.result.bright_spot # brightness.before[1].bright_spot

\* C18: analyze_brightness returns the largest brightness among all pixels of
\* the 32x32 window around the truncated center, clipped to the frame, and the
\* normalized position of the pixel attaining it that comes first by row, then
\* by column; with an empty window or only zero-brightness pixels in it, it
\* returns brightness 0 at (0, 0).
C18_PeakOfWindow ==
    brightness.stage = "done" =>
        LET width == brightness.width
            height == brightness.height
            center_x == (brightness.center[1].num * width) \div brightness.center[1].den
            center_y == (brightness.center[2].num * height) \div brightness.center[2].den
            xs == {x \in 0 .. width - 1 : center_x - 16 <= x /\ x < center_x + 16}
            ys == {y \in 0 .. height - 1 : center_y - 16 <= y /\ y < center_y + 16}
            window == xs \X ys
            lum == [c \in window |->
                       299 * Byte(brightness.frame, 4 * (c[2] * width + c[1]))
                       + 587 * Byte(brightness.frame, 4 * (c[2] * width + c[1]) + 1)
                       + 114 * Byte(brightness.frame, 4 * (c[2] * width + c[1]) + 2)]
            levels == {lum[c] : c \in window}
            peaks == {c \in window : \A v \in levels : v <= lum[c]}
        IN IF window = {} \/ levels = {0}
           THEN brightness.result = NoBrightnessResult
           ELSE \E c \in peaks :
                    /\ \A d \in peaks : c[2] < d[2] \/ (c[2] = d[2] /\ c[1] <= d[1])
                    /\ brightness.result.max_brightness = Rat(lum[c], 255 * 1000)
                    /\ brightness.result.bright_spot = <<Rat(c[1], width), Rat(c[2], height)>>

\* two pixels of the window share the largest brightness, the one in the
\* upper row lying to the right of the other, and the upper one is reported
C18_Witness ==
    /\ brightness.stage = "done"
    /\ \E p, q \in ScannedPixels(brightness.width, brightness.height, brightness.center) :
           /\ p \div brightness.width < q \div brightness.width
           /\ p % brightness.width > q % brightness.width
           /\ Luma(brightness.frame, 4 * p) = Luma(brightness.frame, 4 * q)
           /\ brightness.result.max_brightness = Rat(Luma(brightness.frame, 4 * p), 255 * 1000)
           /\ RatGt(brightness.result.max_brightness, RatZero)
           /\ brightness.result.bright_spot =
                  <<Rat(p % brightness.width, brightness.width),
                    Rat(p \div brightness.width, brightness.height)>>

====
